---- MODULE Spec2Model ----
(***************************************************************************)
(* A model of src/population.py (class Population): the resource locator   *)
(* find_resource, the two aggregators analyze_raster and analyze_tabular,  *)
(* the orchestrator update_population and the merger update_hdx_resource.  *)
(*                                                                         *)
(* Text (resource names, tabular headers) is modelled as a sequence of     *)
(* one-character strings so that the regular expressions, upper(),         *)
(* replace(), int() and str() of the source are computed, not assumed.     *)
(* A Python None is the empty tuple <<>>; an optional value v is <<v>>.    *)
(***************************************************************************)
EXTENDS Integers, Sequences, FiniteSets, TLC

VARIABLES
    pc,                 \* where the program is
    boundaries,         \* self.boundaries: the boundary table
    before,             \* the boundary table when the call under way began
    inp,                \* the arguments and collaborator answers of the call
    out,                \* what the call returned (or the fault it raised)
    catalog,            \* the catalog seen by update_population
    countries,          \* the argument of update_population
    run,                \* which run of update_population is under way
    todo,               \* the (iso, level) pairs the loops have still to visit
    updated_countries,  \* the dict update_population builds
    attempts,           \* history: one entry per loop iteration of this run
    first               \* history: what the first run of update_population left

vars == <<pc, boundaries, before, inp, out, catalog, countries, run, todo,
          updated_countries, attempts, first>>

None == <<>>
Some(v) == <<v>>

(***************************************************************************)
(* Text.                                                                   *)
(***************************************************************************)
Digits == <<"0", "1", "2", "3", "4", "5", "6", "7", "8", "9">>
Lowers == <<"a", "b", "c", "d", "e", "f", "g", "h", "i", "j", "k", "l", "m",
            "n", "o", "p", "q", "r", "s", "t", "u", "v", "w", "x", "y", "z">>
Uppers == <<"A", "B", "C", "D", "E", "F", "G", "H", "I", "J", "K", "L", "M",
            "N", "O", "P", "Q", "R", "S", "T", "U", "V", "W", "X", "Y", "Z">>

IsDigit(c) == \E i \in DOMAIN Digits : Digits[i] = c
DigitVal(c) == (CHOOSE i \in DOMAIN Digits : Digits[i] = c) - 1

\* str.upper() and the case folding of re.IGNORECASE, one character at a time
UpperChar(c) ==
    IF \E i \in DOMAIN Lowers : Lowers[i] = c
    THEN Uppers[CHOOSE i \in DOMAIN Lowers : Lowers[i] = c]
    ELSE c
LowerChar(c) ==
    IF \E i \in DOMAIN Uppers : Uppers[i] = c
    THEN Lowers[CHOOSE i \in DOMAIN Uppers : Uppers[i] = c]
    ELSE c
Upper(s) == [i \in DOMAIN s |-> UpperChar(s[i])]
Lower(s) == [i \in DOMAIN s |-> LowerChar(s[i])]

\* s[i .. i + Len(t) - 1] = t
MatchesAt(s, t, i) ==
    /\ i >= 1
    /\ i + Len(t) - 1 <= Len(s)
    /\ \A k \in 1..Len(t) : s[i + k - 1] = t[k]

\* Python's  t in s  on strings
Contains(s, t) == \E i \in 1..(Len(s) + 1) : MatchesAt(s, t, i)

\* int(y) of a string of digits
RECURSIVE ToInt(_)
ToInt(s) ==
    IF s = <<>> THEN 0
    ELSE 10 * ToInt(SubSeq(s, 1, Len(s) - 1)) + DigitVal(s[Len(s)])

\* str(n) of a natural number
RECURSIVE ToStr(_)
ToStr(n) ==
    IF n < 10 THEN <<Digits[n + 1]>>
    ELSE Append(ToStr(n \div 10), Digits[(n % 10) + 1])

\* s.replace(c, t) for a one-character c
RECURSIVE Replace(_, _, _)
Replace(s, c, t) ==
    IF s = <<>> THEN <<>>
    ELSE (IF Head(s) = c THEN t ELSE <<Head(s)>>) \o Replace(Tail(s), c, t)

\* sum(list_of_lists, [])
RECURSIVE Flatten(_)
Flatten(ss) == IF ss = <<>> THEN <<>> ELSE Head(ss) \o Flatten(Tail(ss))

\* max(list) of a non-empty list of integers
MaxOf(s) == CHOOSE m \in {s[i] : i \in DOMAIN s} : \A i \in DOMAIN s : s[i] <= m

\* the sequences over S of length at most n
SeqsUpTo(S, n) == UNION {[1..k -> S] : k \in 0..n}

\* those of them that hold no element twice
DistinctSeqsUpTo(S, n) ==
    {q \in SeqsUpTo(S, n) : \A i, j \in DOMAIN q : q[i] = q[j] => i = j}

(***************************************************************************)
(* find_resource                                                           *)
(***************************************************************************)
\* re.findall("(?<!\d)\d{4}(?!\d)", name): the runs of exactly four digits
YearStartsAt(name, i) ==
    /\ i + 3 <= Len(name)
    /\ \A k \in 0..3 : IsDigit(name[i + k])
    /\ (i = 1 \/ ~IsDigit(name[i - 1]))
    /\ (i + 4 > Len(name) \/ ~IsDigit(name[i + 4]))

RECURSIVE YearsFrom(_, _)
YearsFrom(name, i) ==
    IF i > Len(name) THEN <<>>
    ELSE IF YearStartsAt(name, i)
         THEN <<SubSeq(name, i, i + 3)>> \o YearsFrom(name, i + 4)
         ELSE YearsFrom(name, i + 1)
FindYears(name) == YearsFrom(name, 1)

\* re.match(f".*adm(in)?{level}.*", name, re.IGNORECASE)
MatchesLevel(name, level) ==
    \/ Contains(Lower(name), <<"a", "d", "m">> \o ToStr(level))
    \/ Contains(Lower(name), <<"a", "d", "m", "i", "n">> \o ToStr(level))

\* re.match("(?<!\d)\d{4}_constrained", name, re.IGNORECASE): anchored at the start
MatchesConstrained(name) ==
    /\ Len(name) >= 4
    /\ \A k \in 1..4 : IsDigit(name[k])
    /\ MatchesAt(Lower(name),
                 <<"_", "c", "o", "n", "s", "t", "r", "a", "i", "n", "e", "d">>, 5)

NoDataset == [found |-> FALSE, resources |-> <<>>]
FoundDataset(rs) == [found |-> TRUE, resources |-> rs]

Returned(res, kind) == [raised |-> "", res |-> res, kind |-> kind]
Raised(fault) == [raised |-> fault, res |-> None, kind |-> ""]

\* lines 31-35: the gridded fallback dataset
FindFallback(fallback) ==
    IF ~fallback.found
    THEN Raised("AttributeError")       \* None.get_resources()
    ELSE LET IsPop(r) == r.type = "geotiff" /\ MatchesConstrained(r.name)
             pop_resource == SelectSeq(fallback.resources, IsPop)
         IN  IF Len(pop_resource) = 0
             THEN Returned(None, "geotiff")
             ELSE Returned(Some(pop_resource[1]), "geotiff")

\* lines 45-57: what pop_resource is after the  len(pop_resource) > 1  block
NarrowToMaxYear(pop_resource) ==
    LET yearmatches ==
            Flatten([i \in DOMAIN pop_resource |-> FindYears(pop_resource[i].name)])
        years == [i \in DOMAIN yearmatches |-> ToInt(yearmatches[i])]
        HasMax(r) == Contains(r.name, ToStr(MaxOf(years)))
        maxyear == SelectSeq(pop_resource, HasMax)
    IN  IF Len(maxyear) = 1 THEN maxyear ELSE pop_resource

\* lines 37-62: the tabular resources of the country's own dataset
FindTabular(primary, level) ==
    LET IsPop(r) == r.type = "csv" /\ MatchesLevel(r.name, level)
        pop_resource == SelectSeq(primary.resources, IsPop)
    IN  IF Len(pop_resource) = 0
        THEN Returned(None, "geotiff")
        ELSE IF Len(pop_resource) > 1
        THEN IF Flatten([i \in DOMAIN pop_resource |->
                            FindYears(pop_resource[i].name)]) = <<>>
             THEN Raised("ValueError")  \* max([])
             ELSE Returned(Some(NarrowToMaxYear(pop_resource)[1]), "csv")
        ELSE Returned(Some(pop_resource[1]), "csv")

\* find_resource(iso, level), given what the catalog answers for the two dataset
\* names built from iso (lines 25 and 28-30); the configuration holds no
\* resource_exceptions entry for iso, so the pattern is the default of line 38
find_resource(primary, fallback, level) ==
    IF ~primary.found THEN FindFallback(fallback) ELSE FindTabular(primary, level)

(***************************************************************************)
(* The boundary table.  A row carries its index label, as pandas rows do.  *)
(* A Population is None, [int |-> n] (stored by analyze_raster) or         *)
(* [str |-> cell] (the tabular cell, stored as read by analyze_tabular).   *)
(***************************************************************************)
Countries == <<"ABC", "KEN">>       \* in ascending order
CountrySet == {Countries[i] : i \in DOMAIN Countries}
Levels == {1, 2}
Pcodes == <<"AB1", "AB11", "AB2", "KE1", "KE11", "ZZ9">>   \* in ascending order

Row(label, iso, level, pcode, pop) ==
    [label |-> label, alpha_3 |-> iso, ADM_LEVEL |-> level, ADM_PCODE |-> pcode,
     geometry |-> label, Population |-> pop]

\* subnational_json with the given Population column: a RangeIndex, four polygons
Boundaries(pops) ==
    << Row(0, "ABC", 1, "AB1", pops[1]),
       Row(1, "ABC", 1, "AB2", pops[2]),
       Row(2, "ABC", 2, "AB11", pops[3]),
       Row(3, "KEN", 1, "KE1", pops[4]) >>

InScope(r, iso, level) == r.alpha_3 = iso /\ r.ADM_LEVEL = level

\* self.boundaries.loc[self.boundaries["ADM_PCODE"] == pcode, "Population"] = pop
SetPopulation(table, pcode, pop) ==
    [i \in DOMAIN table |->
        IF table[i].ADM_PCODE = pcode
        THEN [table[i] EXCEPT !.Population = pop]
        ELSE table[i]]

(***************************************************************************)
(* analyze_raster.  A raster is [ok, sums]: whether its download succeeds  *)
(* and, per polygon, the zonal sum in tenths (None when zonal_stats has no *)
(* value for the polygon).                                                 *)
(***************************************************************************)
\* int(round(pop, 0)): Python 3 rounds a half to the even neighbour
PyRound(tenths) ==
    LET floor == tenths \div 10
        rem == tenths % 10
    IN  IF rem < 5 THEN floor
        ELSE IF rem > 5 THEN floor + 1
        ELSE IF floor % 2 = 0 THEN floor ELSE floor + 1

\* if pop:   None and 0.0 are both false
Truthy(sum) == sum # None /\ sum[1] # 0

\* zonal_stats(vectors=<the rows of (iso, level)>, stats="sum", geojson_out=True)
zonal_stats(table, raster, iso, level) ==
    LET InThisScope(r) == InScope(r, iso, level)
        vectors == SelectSeq(table, InThisScope)
    IN  [i \in DOMAIN vectors |->
            [ADM_PCODE |-> vectors[i].ADM_PCODE, sum |-> raster.sums[vectors[i].geometry]]]

\* lines 78-83, one row of pop_stats
RasterRow(table, row) ==
    IF Truthy(row.sum)
    THEN SetPopulation(table, row.ADM_PCODE, [int |-> PyRound(row.sum[1])])
    ELSE table

RECURSIVE RasterRows(_, _)
RasterRows(table, pop_stats) ==
    IF pop_stats = <<>> THEN table
    ELSE RasterRows(RasterRow(table, Head(pop_stats)), Tail(pop_stats))

Result(fault, ret, table) == [raised |-> fault, ret |-> ret, table |-> table]

analyze_raster(table, resource, iso, level) ==
    IF ~resource.ok
    THEN Result("", None, table)         \* DownloadError is caught
    ELSE Result("", Some(iso),
                RasterRows(table, zonal_stats(table, resource, iso, level)))

(***************************************************************************)
(* analyze_tabular.  A tabular resource is [ok, headers, rows]; a row has  *)
(* one cell per header.                                                    *)
(***************************************************************************)
\* configuration["pcode_mappings"]
PcodeMappings ==
    << <<"A", "D", "M", "#", "_", "P", "C", "O", "D", "E">>,
       <<"A", "D", "M", "#", "P", "C", "O", "D", "E">> >>

IsPcodeHeader(header, level) ==
    \E k \in DOMAIN PcodeMappings :
        Upper(header) = Replace(PcodeMappings[k], "#", ToStr(level))

IsPopHeader(header) == Upper(header) = <<"T", "_", "T", "L">>

\* lines 92-100: the first header of a role, as a position (0: not found), given
\* the positions of the headers that match the role
FirstHeader(matching) ==
    IF matching = {} THEN 0
    ELSE CHOOSE j \in matching : \A k \in matching : j <= k

\* the positions of the pcode headers of the level, and of the population headers
PcodePositions(headers, level) ==
    {j \in DOMAIN headers : IsPcodeHeader(headers[j], level)}
PopPositions(headers) == {j \in DOMAIN headers : IsPopHeader(headers[j])}

\* TabularRow with  updated = True  moved out of the else branch
TabularRowAlwaysUpdated(st, row, pcode_header, pop_header) ==
    LET pcode == row[pcode_header]
        pop == row[pop_header]
    IN  IF \A i \in DOMAIN st.table : st.table[i].ADM_PCODE # pcode
        THEN [table |-> st.table, updated |-> TRUE]
        ELSE [table |-> SetPopulation(st.table, pcode, [str |-> pop]),
              updated |-> TRUE]

\* TabularRow counting a row as an update only when it changes a value
TabularRowCountsChanges(st, row, pcode_header, pop_header) ==
    LET pcode == row[pcode_header]
        pop == row[pop_header]
        written == SetPopulation(st.table, pcode, [str |-> pop])
    IN  IF \A i \in DOMAIN st.table : st.table[i].ADM_PCODE # pcode
        THEN st
        ELSE [table |-> written, updated |-> st.updated \/ written # st.table]

\* lines 111-117, one row; st is [table, updated]
TabularRow(st, row, pcode_header, pop_header) ==
    LET pcode == row[pcode_header]
        pop == row[pop_header]
    IN  IF \A i \in DOMAIN st.table : st.table[i].ADM_PCODE # pcode
        THEN st
        ELSE [table |-> SetPopulation(st.table, pcode, [str |-> pop]),
              updated |-> TRUE]

RECURSIVE TabularRows(_, _, _, _)
TabularRows(st, rows, pcode_header, pop_header) ==
    IF rows = <<>> THEN st
    ELSE TabularRows(TabularRow(st, Head(rows), pcode_header, pop_header),
                     Tail(rows), pcode_header, pop_header)

analyze_tabular(table, resource, iso, level) ==
    IF ~resource.ok
    THEN Result("DownloadError", None, table)   \* get_tabular_rows is not guarded
    ELSE LET pcode_header == FirstHeader(PcodePositions(resource.headers, level))
             pop_header == FirstHeader(PopPositions(resource.headers))
         IN  IF pcode_header = 0 THEN Result("", None, table)
             ELSE IF pop_header = 0 THEN Result("", None, table)
             ELSE LET st == TabularRows([table |-> table, updated |-> FALSE],
                                        resource.rows, pcode_header, pop_header)
                  IN  IF ~st.updated THEN Result("", None, st.table)
                      ELSE Result("", Some(iso), st.table)

(***************************************************************************)
(* What every specification starts from.                                   *)
(***************************************************************************)
MaxResources == 3       \* resources of one dataset

NoPopulation == [i \in 1..4 |-> None]

Idle ==
    /\ before = <<>>
    /\ inp = <<>>
    /\ out = <<>>
    /\ catalog = <<>>
    /\ countries = <<>>
    /\ run = 0
    /\ todo = <<>>
    /\ updated_countries = <<>>
    /\ attempts = <<>>
    /\ first = <<>>

(***************************************************************************)
(* SpecFind: one call of find_resource against any catalog.                *)
(***************************************************************************)
Name_adm1_2019 == <<"a", "d", "m", "1", "_", "2", "0", "1", "9">>
Name_adm1_2021 == <<"a", "d", "m", "1", "_", "2", "0", "2", "1">>
Name_ADMIN1_2021 == <<"A", "D", "M", "I", "N", "1", "_", "2", "0", "2", "1">>
Name_adm1 == <<"a", "d", "m", "1">>
Name_adm2_2020 == <<"a", "d", "m", "2", "_", "2", "0", "2", "0">>
Name_2020_constrained ==
    <<"2", "0", "2", "0", "_", "C", "o", "n", "s", "t", "r", "a", "i", "n", "e", "d">>
Name_ppp_2020 == <<"p", "p", "p", "_", "2", "0", "2", "0">>

ResourcePool ==
    {[name |-> n, type |-> "csv"] :
        n \in {Name_adm1_2019, Name_adm1_2021, Name_ADMIN1_2021, Name_adm1,
               Name_adm2_2020}}
    \cup {[name |-> n, type |-> "geotiff"] : n \in {Name_2020_constrained, Name_ppp_2020}}
    \cup {[name |-> Name_adm1_2021, type |-> "xlsx"]}

Datasets == {NoDataset} \cup {FoundDataset(rs) : rs \in DistinctSeqsUpTo(ResourcePool, MaxResources)}

InitFind == pc = "ready" /\ boundaries = Boundaries(NoPopulation) /\ Idle

FindResource ==
    /\ pc = "ready"
    /\ \E level \in Levels, primary \in Datasets :
        \* the fallback dataset is looked up only when the first lookup fails
        \E fallback \in (IF primary.found THEN {NoDataset} ELSE Datasets) :
            /\ inp' = [level |-> level, primary |-> primary, fallback |-> fallback]
            /\ out' = find_resource(primary, fallback, level)
            /\ pc' = IF out'.raised = "" THEN "returned" ELSE "raised"
    /\ UNCHANGED <<boundaries, before, catalog, countries, run, todo,
                   updated_countries, attempts, first>>

NextFind == FindResource
SpecFind == InitFind /\ [][NextFind]_vars

\* the tabular resources find_resource matches at the call's level
Matched ==
    LET IsPop(r) == r.type = "csv" /\ MatchesLevel(r.name, inp.level)
    IN  SelectSeq(inp.primary.resources, IsPop)

\* the largest 4-digit year among the names of rs
MaxYear(rs) ==
    LET tokens == Flatten([i \in DOMAIN rs |-> FindYears(rs[i].name)])
    IN  MaxOf([i \in DOMAIN tokens |-> ToInt(tokens[i])])

ReferencesYear(r, year) ==
    \E i \in DOMAIN FindYears(r.name) : ToInt(FindYears(r.name)[i]) = year

\* C4: with two or more matching tabular resources find_resource returns the
\* first, in original order, of those whose name references the maximum year.
C4_ReturnsFirstOfMaxYear ==
    (pc = "returned" /\ inp.primary.found /\ Len(Matched) >= 2)
        => LET RefsMax(r) == ReferencesYear(r, MaxYear(Matched))
           IN  out.res = Some(SelectSeq(Matched, RefsMax)[1])

\* C5: find_resource never raises, whatever the catalog holds.
C5_FindNeverRaises == pc # "raised"

(***************************************************************************)
(* SpecRaster: one call of analyze_raster.                                 *)
(***************************************************************************)
\* a table some of whose records hold a population of an earlier run
SomePopulation == <<[int |-> 7], None, [str |-> "9"], None>>

InitTables == {Boundaries(NoPopulation), Boundaries(SomePopulation)}

\* zonal sums in tenths: none, 0.0, 2.5, 3.5, 1234.4
SumPool == {None, Some(0), Some(25), Some(35), Some(12344)}

InitRaster == pc = "ready" /\ boundaries \in InitTables /\ Idle

AnalyzeRaster ==
    /\ pc = "ready"
    /\ \E iso \in CountrySet, level \in Levels, ok \in BOOLEAN,
          sums \in [0..3 -> SumPool] :
        LET resource == [ok |-> ok, sums |-> sums]
        IN  \E r \in {analyze_raster(boundaries, resource, iso, level)} :
                /\ inp' = [iso |-> iso, level |-> level, resource |-> resource]
                /\ before' = boundaries
                /\ boundaries' = r.table
                /\ out' = [raised |-> r.raised, ret |-> r.ret]
                /\ pc' = IF r.raised = "" THEN "returned" ELSE "raised"
    /\ UNCHANGED <<catalog, countries, run, todo, updated_countries, attempts, first>>

NextRaster == AnalyzeRaster
SpecRaster == InitRaster /\ [][NextRaster]_vars

\* the nearest integer, halves rounded up
RoundHalfUp(tenths) == (tenths + 5) \div 10

\* C7: once the download succeeds, every polygon of (iso, level) with a defined
\* sum holds that sum rounded half up, and every other polygon of (iso, level)
\* keeps its population.
C7_RasterStoresRoundedSum ==
    (pc = "returned" /\ inp.resource.ok)
        => \A i \in DOMAIN before :
            InScope(before[i], inp.iso, inp.level)
                => LET sum == inp.resource.sums[before[i].geometry]
                   IN  IF sum # None
                       THEN boundaries[i].Population = [int |-> RoundHalfUp(sum[1])]
                       ELSE boundaries[i].Population = before[i].Population

(***************************************************************************)
(* SpecTabular: one call of analyze_tabular.                               *)
(***************************************************************************)
MaxRows == 2            \* rows of one tabular resource

Header_ADM1_PCODE == <<"A", "D", "M", "1", "_", "P", "C", "O", "D", "E">>
Header_adm1pcode == <<"a", "d", "m", "1", "p", "c", "o", "d", "e">>
Header_T_TL == <<"T", "_", "T", "L">>
HeaderPool == {Header_ADM1_PCODE, Header_adm1pcode, Header_T_TL}

HeaderLists == DistinctSeqsUpTo(HeaderPool, Cardinality(HeaderPool))

\* the cells a column may hold: a pcode of (ABC, 1), a pcode of another scope,
\* an unknown pcode; a population
CellsFor(header) ==
    IF header = Header_T_TL THEN {"100", "200"} ELSE {"AB1", "AB11", "ZZ9"}

RowsFor(headers) ==
    {row \in [DOMAIN headers -> UNION {CellsFor(headers[j]) : j \in DOMAIN headers}] :
        \A j \in DOMAIN headers : row[j] \in CellsFor(headers[j])}

InitTabular == pc = "ready" /\ boundaries \in InitTables /\ Idle

AnalyzeTabular ==
    /\ pc = "ready"
    /\ \E iso \in CountrySet, level \in Levels, ok \in BOOLEAN, headers \in HeaderLists :
        \E rows \in (IF ok THEN SeqsUpTo(RowsFor(headers), MaxRows) ELSE {<<>>}) :
            LET resource == [ok |-> ok, headers |-> headers, rows |-> rows]
            IN  \E r \in {analyze_tabular(boundaries, resource, iso, level)} :
                    /\ inp' = [iso |-> iso, level |-> level, resource |-> resource]
                    /\ before' = boundaries
                    /\ boundaries' = r.table
                    /\ out' = [raised |-> r.raised, ret |-> r.ret]
                    /\ pc' = IF r.raised = "" THEN "returned" ELSE "raised"
    /\ UNCHANGED <<catalog, countries, run, todo, updated_countries, attempts, first>>

NextTabular == AnalyzeTabular
SpecTabular == InitTabular /\ [][NextTabular]_vars

\* the header positions the call resolved (0: unresolved)
PcodeHeaderOfCall == FirstHeader(PcodePositions(inp.resource.headers, inp.level))
PopHeaderOfCall == FirstHeader(PopPositions(inp.resource.headers))

\* the pcodes of the call's (iso, level) scope
ScopePcodes ==
    {before[i].ADM_PCODE : i \in {k \in DOMAIN before : InScope(before[k], inp.iso, inp.level)}}

\* the pcodes the streamed rows name, read under the pcode header at position ph
RowPcodes(ph) == {inp.resource.rows[k][ph] : k \in DOMAIN inp.resource.rows}

\* C6: a tabular row changes only the record of the call's (iso, level) whose
\* pcode is the row's; records of other scopes are never modified, and a row
\* whose pcode is not of the scope does not count as an update.
C6_TabularWritesOnlyInScope ==
    pc = "returned"
        => \E ph \in {PcodeHeaderOfCall} :
            /\ \A i \in DOMAIN before :
                boundaries[i].Population # before[i].Population
                    => /\ InScope(before[i], inp.iso, inp.level)
                       /\ before[i].ADM_PCODE \in RowPcodes(ph)
            /\ out.ret # None => RowPcodes(ph) \cap ScopePcodes # {}

\* both headers resolved and some streamed row named a pcode the table holds
SomeRowUpdated(ph, qh) ==
    /\ ph # 0
    /\ qh # 0
    /\ \E i \in DOMAIN before : before[i].ADM_PCODE \in RowPcodes(ph)

\* C8: analyze_tabular returns None exactly when a header is unresolved or no
\* row updated a record, and then the boundary table is what it was; it returns
\* the country code exactly when both headers resolved and a row updated a record.
C8_TabularFailureMarker ==
    pc = "returned"
        => \E ph \in {PcodeHeaderOfCall}, qh \in {PopHeaderOfCall} :
            /\ out.ret = None <=> (ph = 0 \/ qh = 0 \/ ~SomeRowUpdated(ph, qh))
            /\ out.ret = None => boundaries = before
            /\ out.ret = Some(inp.iso) <=> SomeRowUpdated(ph, qh)

\* a call whose headers resolved and whose rows all named unknown pcodes
C8_Witness ==
    /\ pc = "returned"
    /\ PcodeHeaderOfCall # 0
    /\ PopHeaderOfCall # 0
    /\ inp.resource.rows # <<>>
    /\ out.ret = None
    /\ \E i \in DOMAIN before : before[i].Population # None

(***************************************************************************)
(* update_hdx_resource.  updated_countries is the dict as a sequence of    *)
(* [level, isos] entries in insertion order, one per key.                  *)
(***************************************************************************)
\* self.boundaries.drop(columns="geometry")
DropGeometry(table) ==
    [i \in DOMAIN table |->
        [label |-> table[i].label, alpha_3 |-> table[i].alpha_3,
         ADM_LEVEL |-> table[i].ADM_LEVEL, ADM_PCODE |-> table[i].ADM_PCODE,
         Population |-> table[i].Population]]

IsIn(x, list) == \E i \in DOMAIN list : list[i] = x

\* (alpha_3.isin(isos)) & (ADM_LEVEL == level)
InSlice(r, isos, level) == IsIn(r.alpha_3, isos) /\ r.ADM_LEVEL = level

\* StaleLabels with the level test left out of the mask
StaleLabelsAnyLevel(pop_data, isos, level) ==
    {pop_data[i].label : i \in {k \in DOMAIN pop_data : IsIn(pop_data[k].alpha_3, isos)}}

\* pop_data[<slice>].index: the index labels of the rows to drop
StaleLabels(pop_data, isos, level) ==
    {pop_data[i].label : i \in {k \in DOMAIN pop_data : InSlice(pop_data[k], isos, level)}}

\* lines 167-171: DataFrame.drop removes every row that carries a given label
MergeLevel(pop_data, updated_data, isos, level) ==
    LET Kept(r) == r.label \notin StaleLabels(pop_data, isos, level)
        Fresh(r) == InSlice(r, isos, level)
    IN  SelectSeq(pop_data, Kept) \o SelectSeq(updated_data, Fresh)

RECURSIVE MergeLevels(_, _, _)
MergeLevels(pop_data, updated_data, entries) ==
    IF entries = <<>> THEN pop_data
    ELSE MergeLevels(MergeLevel(pop_data, updated_data, Head(entries).isos,
                                Head(entries).level),
                     updated_data, Tail(entries))

RankIn(list, x) == CHOOSE i \in DOMAIN list : list[i] = x

\* the order of sort_values(by=["alpha_3", "ADM_LEVEL", "ADM_PCODE"])
KeyLess(a, b) ==
    LET ca == RankIn(Countries, a.alpha_3)
        cb == RankIn(Countries, b.alpha_3)
        pa == RankIn(Pcodes, a.ADM_PCODE)
        pb == RankIn(Pcodes, b.ADM_PCODE)
    IN  \/ ca < cb
        \/ ca = cb /\ a.ADM_LEVEL < b.ADM_LEVEL
        \/ ca = cb /\ a.ADM_LEVEL = b.ADM_LEVEL /\ pa < pb

\* r put into the sorted rows after every row that is not greater (a stable sort)
RECURSIVE InsertRow(_, _)
InsertRow(sorted, r) ==
    IF sorted = <<>> THEN <<r>>
    ELSE IF KeyLess(r, Head(sorted)) THEN <<r>> \o sorted
    ELSE <<Head(sorted)>> \o InsertRow(Tail(sorted), r)

RECURSIVE SortRows(_)
SortRows(rows) ==
    IF rows = <<>> THEN <<>>
    ELSE InsertRow(SortRows(SubSeq(rows, 1, Len(rows) - 1)), rows[Len(rows)])

\* update_hdx_resource; overall is [found, ok, rows]: the catalog's answer for
\* dataset_name, whether its first resource downloads, and the table it holds
update_hdx_resource(table, overall, entries) ==
    IF ~overall.found THEN None
    ELSE IF ~overall.ok THEN None
    ELSE Some(SortRows(MergeLevels(overall.rows, DropGeometry(table), entries)))

(***************************************************************************)
(* SpecMerge: one call of update_hdx_resource.                             *)
(***************************************************************************)
MaxPrior == 3           \* rows of the prior overall table

PriorPool ==
    { [alpha_3 |-> "ABC", ADM_LEVEL |-> 1, ADM_PCODE |-> "AB1", Population |-> [int |-> 1]],
      [alpha_3 |-> "ABC", ADM_LEVEL |-> 2, ADM_PCODE |-> "AB11", Population |-> [int |-> 2]],
      [alpha_3 |-> "KEN", ADM_LEVEL |-> 1, ADM_PCODE |-> "KE1", Population |-> [int |-> 3]],
      [alpha_3 |-> "KEN", ADM_LEVEL |-> 2, ADM_PCODE |-> "KE11", Population |-> [int |-> 4]] }

\* read_csv gives the prior table a RangeIndex
WithRangeIndex(rows) ==
    [i \in DOMAIN rows |->
        [label |-> i - 1, alpha_3 |-> rows[i].alpha_3, ADM_LEVEL |-> rows[i].ADM_LEVEL,
         ADM_PCODE |-> rows[i].ADM_PCODE, Population |-> rows[i].Population]]

PriorTables == {WithRangeIndex(rows) : rows \in DistinctSeqsUpTo(PriorPool, MaxPrior)}

IsoLists == {<<>>, <<"ABC">>, <<"KEN">>, <<"ABC", "KEN">>}

\* the dicts update_population can hand over: one entry per level, in any order
UpdatedCountriesDicts ==
    {entries \in DistinctSeqsUpTo([level : Levels, isos : IsoLists], Cardinality(Levels)) :
        \A i, j \in DOMAIN entries : entries[i].level = entries[j].level => i = j}

InitMerge == pc = "ready" /\ boundaries \in InitTables /\ Idle

UpdateHdxResource ==
    /\ pc = "ready"
    /\ \E found \in BOOLEAN, ok \in BOOLEAN, entries \in UpdatedCountriesDicts :
        \E rows \in (IF found /\ ok THEN PriorTables ELSE {<<>>}) :
            LET overall == [found |-> found, ok |-> ok, rows |-> rows]
            IN  \E r \in {update_hdx_resource(boundaries, overall, entries)} :
                    /\ inp' = [overall |-> overall, updated_countries |-> entries]
                    /\ out' = [raised |-> "", ret |-> r]
                    /\ pc' = "returned"
    /\ UNCHANGED <<boundaries, before, catalog, countries, run, todo,
                   updated_countries, attempts, first>>

NextMerge == UpdateHdxResource
SpecMerge == InitMerge /\ [][NextMerge]_vars

Count(rows, v) == Cardinality({i \in DOMAIN rows : rows[i] = v})

\* (iso, level) is a slice the call replaces
Covered(iso, level) ==
    \E k \in DOMAIN inp.updated_countries :
        inp.updated_countries[k].level = level /\ IsIn(iso, inp.updated_countries[k].isos)

RowsOf(rows, iso, level) ==
    LET Here(r) == r.alpha_3 = iso /\ r.ADM_LEVEL = level
    IN  SelectSeq(rows, Here)

\* C1: in the merged table the rows of every replaced (iso, level) are exactly
\* the boundary rows of (iso, level) with the geometry dropped.
C1_SlicesReplaced ==
    (pc = "returned" /\ out.ret # None)
        => \A iso \in CountrySet, level \in Levels :
            Covered(iso, level)
                => LET merged == RowsOf(out.ret[1], iso, level)
                       fresh == RowsOf(DropGeometry(boundaries), iso, level)
                   IN  /\ Len(merged) = Len(fresh)
                       /\ \A i \in DOMAIN fresh : Count(merged, fresh[i]) = 1

\* C2: every prior row whose (country, level) is not replaced is in the merged
\* table exactly once, unchanged.
C2_OtherRowsPassThrough ==
    (pc = "returned" /\ out.ret # None)
        => \A i \in DOMAIN inp.overall.rows :
            ~Covered(inp.overall.rows[i].alpha_3, inp.overall.rows[i].ADM_LEVEL)
                => Count(out.ret[1], inp.overall.rows[i]) = 1

\* a call that replaces one slice of the prior table and passes another row through
C2_Witness ==
    /\ pc = "returned"
    /\ out.ret # None
    /\ Len(inp.updated_countries) = 2
    /\ \E i, j \in DOMAIN inp.overall.rows :
        /\ Covered(inp.overall.rows[i].alpha_3, inp.overall.rows[i].ADM_LEVEL)
        /\ ~Covered(inp.overall.rows[j].alpha_3, inp.overall.rows[j].ADM_LEVEL)
        /\ Count(out.ret[1], inp.overall.rows[i]) = 0
        /\ Count(out.ret[1], inp.overall.rows[j]) = 1
        /\ inp.overall.rows[i].label < inp.overall.rows[j].label

(***************************************************************************)
(* update_population.  One step per iteration of the inner loop.           *)
(***************************************************************************)
\* list(set(self.boundaries["ADM_LEVEL"].loc[alpha_3 == iso])): small integers
\* come out of a set in ascending order
RECURSIVE Ascending(_)
Ascending(S) ==
    IF S = {} THEN <<>>
    ELSE LET m == CHOOSE x \in S : \A y \in S : x <= y
         IN  <<m>> \o Ascending(S \ {m})

LevelsOf(table, iso) ==
    Ascending({table[i].ADM_LEVEL : i \in {k \in DOMAIN table : table[k].alpha_3 = iso}})

\* the (iso, level) pairs the two loops visit, in order
RECURSIVE PairsOf(_, _)
PairsOf(table, isos) ==
    IF isos = <<>> THEN <<>>
    ELSE [i \in DOMAIN LevelsOf(table, Head(isos)) |->
            [iso |-> Head(isos), level |-> LevelsOf(table, Head(isos))[i]]]
         \o PairsOf(table, Tail(isos))

HasKey(entries, level) == \E k \in DOMAIN entries : entries[k].level = level
Get(entries, level) == entries[CHOOSE k \in DOMAIN entries : entries[k].level = level].isos

\* lines 127-128
EnsureKey(entries, level) ==
    IF HasKey(entries, level) THEN entries
    ELSE Append(entries, [level |-> level, isos |-> <<>>])

\* AddUpdated without the test of what the aggregator returned
AddUpdatedUnchecked(entries, level, iso, updated) ==
    IF ~IsIn(iso, Get(entries, level))
    THEN [k \in DOMAIN entries |->
            IF entries[k].level = level
            THEN [entries[k] EXCEPT !.isos = Append(@, iso)]
            ELSE entries[k]]
    ELSE entries

\* lines 145-146; updated is what the aggregator returned (None or the iso)
AddUpdated(entries, level, iso, updated) ==
    IF updated # None /\ ~IsIn(iso, Get(entries, level))
    THEN [k \in DOMAIN entries |->
            IF entries[k].level = level
            THEN [entries[k] EXCEPT !.isos = Append(@, iso)]
            ELSE entries[k]]
    ELSE entries

Attempt(iso, level, found, kind, called, ret) ==
    [iso |-> iso, level |-> level, found |-> found, kind |-> kind,
     called |-> called, ret |-> ret]

Outcome(fault, table, entries, attempt) ==
    [raised |-> fault, table |-> table, entries |-> entries, attempt |-> attempt]

\* lines 139-143: the aggregator of the resource's kind
Dispatch(table, resource, kind, iso, level) ==
    IF kind = "geotiff" THEN analyze_raster(table, resource, iso, level)
    ELSE analyze_tabular(table, resource, iso, level)

\* lines 127-147: one iteration of the inner loop
ProcessPair(table, entries, cat, iso, level) ==
    LET keyed == EnsureKey(entries, level)
        f == find_resource(cat[iso].primary, cat[iso].fallback, level)
    IN      IF f.raised # ""
            THEN Outcome(f.raised, table, keyed, Attempt(iso, level, FALSE, "", "", None))
            ELSE IF f.res = None
            THEN Outcome("", table, keyed, Attempt(iso, level, FALSE, f.kind, "", None))
            ELSE LET r == Dispatch(table, f.res[1], f.kind, iso, level)
                     called == IF f.kind = "geotiff" THEN "analyze_raster"
                               ELSE "analyze_tabular"
                 IN  Outcome(r.raised, r.table,
                             IF r.raised = "" THEN AddUpdated(keyed, level, iso, r.ret)
                             ELSE keyed,
                             Attempt(iso, level, TRUE, f.kind, called, r.ret))

(***************************************************************************)
(* SpecUpdate: update_population run again and again with the same         *)
(* countries against one catalog.                                          *)
(***************************************************************************)
MaxCountries == 2       \* length of the countries argument
MaxRuns == 2            \* runs of update_population

Header_ADM2_PCODE == <<"A", "D", "M", "2", "_", "P", "C", "O", "D", "E">>
Name_admin1 == <<"a", "d", "m", "i", "n", "1">>

Csv(name, ok, headers, rows) ==
    [name |-> name, type |-> "csv", ok |-> ok, headers |-> headers, rows |-> rows]
Geotiff(name, ok, sums) ==
    [name |-> name, type |-> "geotiff", ok |-> ok, sums |-> sums]

Sums(s0, s1, s2, s3) == [g \in 0..3 |-> <<s0, s1, s2, s3>>[g + 1]]

\* what Dataset.read_from_hdx may answer for a country's own dataset
PrimaryDatasets ==
    { \* one tabular resource per level, each naming its own units
      FoundDataset(<<
        Csv(Name_adm1_2021, TRUE, <<Header_ADM1_PCODE, Header_T_TL>>,
            << <<"AB1", "100">>, <<"AB2", "200">> >>),
        Csv(Name_adm2_2020, TRUE, <<Header_ADM2_PCODE, Header_T_TL>>,
            << <<"AB11", "300">> >>) >>),
      FoundDataset(<<
        Csv(Name_adm1_2019, TRUE, <<Header_adm1pcode, Header_T_TL>>,
            << <<"KE1", "400">> >>) >>),
      \* rows that name units of other scopes, and an unknown unit
      FoundDataset(<<
        Csv(Name_ADMIN1_2021, TRUE, <<Header_T_TL, Header_ADM1_PCODE>>,
            << <<"500", "AB11">>, <<"600", "KE1">>, <<"700", "ZZ9">> >>) >>),
      \* a tabular resource whose download fails
      FoundDataset(<<
        Csv(Name_adm1_2021, FALSE, <<>>, <<>>) >>),
      \* no pcode header of level 1
      FoundDataset(<<
        Csv(Name_adm1, TRUE, <<Header_ADM2_PCODE, Header_T_TL>>,
            << <<"AB1", "100">> >>) >>),
      \* only unknown units
      FoundDataset(<<
        Csv(Name_adm1, TRUE, <<Header_ADM1_PCODE, Header_T_TL>>,
            << <<"ZZ9", "100">> >>) >>),
      \* two resources of level 1, of 2019 and of 2021
      FoundDataset(<<
        Csv(Name_adm1_2019, TRUE, <<Header_ADM1_PCODE, Header_T_TL>>,
            << <<"AB1", "800">>, <<"KE1", "810">> >>),
        Csv(Name_adm1_2021, TRUE, <<Header_ADM1_PCODE, Header_T_TL>>,
            << <<"AB1", "900">>, <<"KE1", "910">> >>) >>),
      \* two resources of level 1 whose names hold no year
      FoundDataset(<<
        Csv(Name_adm1, TRUE, <<Header_ADM1_PCODE, Header_T_TL>>,
            << <<"AB1", "100">> >>),
        Csv(Name_admin1, TRUE, <<Header_ADM1_PCODE, Header_T_TL>>,
            << <<"AB1", "200">> >>) >>),
      \* no tabular resource at all
      FoundDataset(<<
        Geotiff(Name_2020_constrained, TRUE, Sums(Some(25), None, Some(0), Some(35))) >>) }

\* what it may answer for the gridded dataset
FallbackDatasets ==
    { NoDataset,
      FoundDataset(<<
        Geotiff(Name_ppp_2020, TRUE, Sums(Some(10), Some(10), Some(10), Some(10))),
        Geotiff(Name_2020_constrained, TRUE,
                Sums(Some(25), None, Some(0), Some(12344))) >>),
      FoundDataset(<<
        Geotiff(Name_2020_constrained, FALSE, Sums(None, None, None, None)) >>),
      FoundDataset(<<
        Geotiff(Name_ppp_2020, TRUE, Sums(Some(10), Some(10), Some(10), Some(10))) >>) }

CatalogEntries ==
    {[primary |-> p, fallback |-> NoDataset] : p \in PrimaryDatasets}
    \cup {[primary |-> NoDataset, fallback |-> f] : f \in FallbackDatasets}

InitUpdate ==
    /\ pc = "ready"
    /\ boundaries \in InitTables
    /\ catalog \in [CountrySet -> CatalogEntries]
    /\ countries \in SeqsUpTo(CountrySet, MaxCountries)
    /\ run = 0
    /\ before = <<>>
    /\ inp = <<>>
    /\ out = <<>>
    /\ todo = <<>>
    /\ updated_countries = <<>>
    /\ attempts = <<>>
    /\ first = None

\* update_population(countries) is called: lines 123-125
Start ==
    /\ pc \in {"ready", "returned"}
    /\ run < MaxRuns
    /\ run' = run + 1
    /\ pc' = "loop"
    /\ before' = boundaries
    /\ updated_countries' = <<>>
    /\ todo' = PairsOf(boundaries, countries)
    /\ attempts' = <<>>
    /\ out' = <<>>
    /\ UNCHANGED <<boundaries, inp, catalog, countries, first>>

\* one iteration of the inner loop: lines 126-147
Step ==
    /\ pc = "loop"
    /\ todo # <<>>
    /\ \E o \in {ProcessPair(boundaries, updated_countries, catalog,
                             Head(todo).iso, Head(todo).level)} :
        /\ boundaries' = o.table
        /\ updated_countries' = o.entries
        /\ attempts' = Append(attempts, o.attempt)
        /\ pc' = IF o.raised = "" THEN "loop" ELSE "raised"
        /\ out' = IF o.raised = "" THEN out ELSE [raised |-> o.raised, ret |-> None]
    /\ todo' = Tail(todo)
    /\ UNCHANGED <<before, inp, catalog, countries, run, first>>

\* line 149
Return ==
    /\ pc = "loop"
    /\ todo = <<>>
    /\ pc' = "returned"
    /\ out' = [raised |-> "", ret |-> Some(updated_countries)]
    /\ first' = IF run = 1
                THEN Some([boundaries |-> boundaries, updated_countries |-> updated_countries])
                ELSE first
    /\ UNCHANGED <<boundaries, before, inp, catalog, countries, run, todo,
                   updated_countries, attempts>>

NextUpdate == Start \/ Step \/ Return
SpecUpdate == InitUpdate /\ [][NextUpdate]_vars

\* C3: every (iso, level) pair of the input is processed exactly once, and no
\* failure at a pair ends the run with an unhandled fault.
C3_NoPairAbortsRun ==
    /\ pc # "raised"
    /\ pc = "returned"
        => [k \in DOMAIN attempts |-> [iso |-> attempts[k].iso, level |-> attempts[k].level]]
            = PairsOf(before, countries)

\* C9: a further run with the same countries against the same catalog leaves
\* every record's population as the first run left it and returns the same
\* updated_countries.
C9_RerunIdempotent ==
    (pc = "returned" /\ run >= 2)
        => /\ \A i \in DOMAIN boundaries :
                boundaries[i].Population = first[1].boundaries[i].Population
           /\ updated_countries = first[1].updated_countries

\* a second run that has ended, after runs that stored a raster sum for one
\* country and a tabular cell for the other
C9_Witness ==
    /\ pc = "returned"
    /\ run = 2
    /\ \E i, j \in DOMAIN boundaries :
        /\ boundaries[i].Population = [int |-> 2]
        /\ boundaries[j].Population = [str |-> "400"]
    /\ \E k \in DOMAIN attempts : attempts[k].called = "analyze_raster"
    /\ \E k \in DOMAIN attempts : attempts[k].called = "analyze_tabular"

\* what the aggregator of the pair's resource returns, None when find_resource
\* finds no resource
OutcomeOfPair(iso, level) ==
    LET f == find_resource(catalog[iso].primary, catalog[iso].fallback, level)
    IN  IF f.res = None THEN None
        ELSE Dispatch(before, f.res[1], f.kind, iso, level).ret

IsPair(iso, level) ==
    \E k \in DOMAIN PairsOf(before, countries) :
        PairsOf(before, countries)[k] = [iso |-> iso, level |-> level]

\* C10: in the result, iso is in updated_countries[level] exactly when (iso, level)
\* is a pair of the input, find_resource returned a resource for it and the one
\* aggregator of its kind returned the country code; no list holds an iso twice.
C10_UpdatedIffAggregated ==
    pc = "returned"
        => /\ \A iso \in CountrySet, level \in Levels :
                (HasKey(updated_countries, level) /\ IsIn(iso, Get(updated_countries, level)))
                    <=> (IsPair(iso, level) /\ OutcomeOfPair(iso, level) = Some(iso))
           /\ \A k \in DOMAIN updated_countries :
                \A i, j \in DOMAIN updated_countries[k].isos :
                    updated_countries[k].isos[i] = updated_countries[k].isos[j] => i = j
           /\ \A k \in DOMAIN attempts :
                attempts[k].called =
                    (IF ~attempts[k].found THEN ""
                     ELSE IF attempts[k].kind = "geotiff" THEN "analyze_raster"
                     ELSE "analyze_tabular")

\* a run that ended with a pair updated, a pair whose aggregator failed and a
\* pair without a resource
C10_Witness ==
    /\ pc = "returned"
    /\ \E k \in DOMAIN attempts : attempts[k].found /\ attempts[k].ret # None
    /\ \E k \in DOMAIN attempts : attempts[k].found /\ attempts[k].ret = None
    /\ \E k \in DOMAIN attempts : ~attempts[k].found
    /\ \E k \in DOMAIN updated_countries : updated_countries[k].isos = <<>>

====
